---- MODULE Spec2Model ----
(***************************************************************************)
(* Model of the reminder bot's orchestration loop                          *)
(* (AIService.streamAIResponse), the task tools (tools.tasks.ts), the      *)
(* user store (userStore.ts) and the once-a-minute scheduler callback      *)
(* (bot.ts).  One user with a chat channel.  Time is counted in minutes.   *)
(***************************************************************************)
EXTENDS Integers, Sequences, FiniteSets, TLC

\* ---------------------------------------------------------------- bounds
MaxTasks == 1        \* tasks in the store when a scheduler-world run starts
MaxTime == 2         \* last scheduler tick modelled
MaxCalls == 2        \* tool calls the model emits in one pass
AgentRounds == 1     \* passes per invocation in which the scheduler-world agent emits calls
MaxRoutines == 1     \* routines in the store when a routine-world run starts

\* ------------------------------------------------------ program constants
MaxRecursionDepth == 5

TaskIds == 1..MaxTasks
Times == 0..MaxTime
NoDate == -1         \* an argument or field that is undefined
EmptyDate == -2      \* the empty string passed as a date argument
InvalidDate == -3    \* a Date object whose time value is NaN
BadDate == -4        \* a non-empty string that is not a date, passed as a date argument
NoId == 0            \* an id argument or field that is undefined
AbsentId == 99       \* an id that names nothing in the user's record
UserA == 1           \* the user the modelled passes and ticks run for
UserB == 2           \* another user of the bot
Statuses == {"pending", "completed", "failed", "needs_replanning"}
Annoyances == {"low", "med", "high"}

VARIABLES
    now,             \* getCurrentTime() of the latest tick
    routines,        \* user.routines: the array of routines, a routine's id is its position
    fired,           \* <<routine, firing instant, task, the tick's now>> for every task a tick made from a routine
    routineClock,    \* <<now, moment of recurrence evaluation>> of the latest tick in ms, <<>> if it had no routine
    tasks,           \* user.tasks: the array of task objects (by id)
    taskObj,         \* the task objects themselves (shared references)
    nextId,          \* ids handed out so far by generateShortId
    messageHistory,  \* user.messageHistory (where ticks and messages start invocations: the entries pushed since the running one began)
    frames,          \* call stack of streamAIResponseInternal, outermost first
    tickPc,          \* position of the cron callback: "idle" or "ping"
    pendingTasks,    \* the callback's filtered list, tasks still to visit
    invFailed,       \* some pass of the running invocation took the catch path
    prompted,        \* tasks the running tick has invoked the loop for
    awaitingAgent,   \* tasks the scheduler set to needs_replanning, untouched by the agent since
    lastPass,        \* depth and tool executions of the latest pass that returned without recursing
    outbox,          \* what bot.sendMessage and bot.editMessageText have shown since the running invocation began
    liveIntervals,   \* depths of the passes whose refresh timer was left running with text still to show
    replyPc,         \* position of replyToUser: "idle", "stream" (awaiting the loop) or "done"
    bystander,       \* the record of another user of the bot
    parked,          \* the handlers that are suspended at an await while another one runs
    clock,           \* the wall clock: the minute of the latest tick that has started
    streaming,       \* the locals of the pass that is reading its stream chunk by chunk
    compaction       \* the locals of runHistoryCompaction: the runs it found and has not yet replaced

vars == <<now, routines, fired, routineClock, tasks, taskObj, nextId, messageHistory, frames,
          tickPc, pendingTasks, invFailed, prompted, awaitingAgent, lastPass,
          outbox, liveIntervals, replyPc, bystander, parked, clock, streaming, compaction>>

storeVars == <<routines, tasks, taskObj, nextId>>
tickVars == <<now, tickPc, pendingTasks, prompted, fired, routineClock>>
chatVars == <<outbox, liveIntervals, replyPc>>
sideVars == <<bystander, parked, clock, streaming, compaction>>

\* ---------------------------------------------------------------- helpers
NoPass == [depth |-> -1, tools |-> 0]

NoTask == [name |-> "none", routineId |-> NoId, status |-> "none", annoyance |-> "none",
           pingAt |-> NoDate, dueAt |-> NoDate, requiresAction |-> FALSE,
           postponeCount |-> 0]

Tok(k, d) == [k |-> k, d |-> d]

\* one tool call as assembled from the stream: the tool's name, whether the
\* argument string parses as JSON, and the arguments it carries ("none",
\* NoDate and NoId stand for an argument that is left out, "" for the empty
\* string); userId is a user id the agent itself wrote into the arguments
Call(name, id, st, p, d, ra) ==
    [name |-> name, json |-> TRUE, userId |-> NoId, task_id |-> id, routine_id |-> NoId,
     arg_name |-> "none", status |-> st, annoyance |-> "none",
     default_annoyance |-> "none", cron |-> "none", is_active |-> "none",
     ping_at |-> p, due_at |-> d, requires_action |-> ra]

\* JavaScript truthiness of a string argument
Truthy(x) == x \notin {"none", ""}

\* new Date(x): a time for a parseable string, Invalid Date otherwise
DateOf(x) == IF x >= 0 THEN x ELSE InvalidDate

\* JavaScript truthiness of a date argument: a non-empty string
TruthyDate(x) == x \notin {NoDate, EmptyDate}

PingArgs == {1, MaxTime}

UpdateTaskCalls ==
    {Call("UpdateTask", id, "none", p, NoDate, "none") : id \in TaskIds, p \in PingArgs}
    \cup {Call("UpdateTask", id, "pending", NoDate, NoDate, "none") : id \in TaskIds}
    \cup {Call("UpdateTask", id, "failed", MaxTime, NoDate, "none") : id \in TaskIds}

MarkCalls ==
    {Call(n, id, "none", NoDate, NoDate, "none") :
        n \in {"MarkTaskComplete", "MarkTaskFailed", "DeleteTask"}, id \in TaskIds}

\* the calls the agent chooses from in a scheduler-world run
AgentCalls == UpdateTaskCalls \cup MarkCalls

\* all sequences over S of length at most n
RECURSIVE SeqsUpTo(_, _)
SeqsUpTo(S, n) ==
    IF n = 0 THEN {<<>>}
    ELSE LET shorter == SeqsUpTo(S, n - 1)
         IN shorter \cup {Append(q, c) : q \in {r \in shorter : Len(r) = n - 1}, c \in S}

\* ------------------------------------------------------------- user store
Store == [routines |-> routines, tasks |-> tasks, taskObj |-> taskObj, nextId |-> nextId]

\* getTask: the task is looked up in the user's array
getTask(S, id) == \E i \in 1..Len(S.tasks) : S.tasks[i] = id

\* getRoutine: the routine is looked up in the user's array
getRoutine(S, id) == id \in 1..Len(S.routines)

\* updateUserTask: the stored task, if any, becomes what updateFn makes of it
updateUserTask(S, id, updated) ==
    IF getTask(S, id) THEN [S EXCEPT !.taskObj[id] = updated] ELSE S

\* updateUserRoutine: the stored routine, if any, becomes what updateFn makes of it
updateUserRoutine(S, id, updated) ==
    IF getRoutine(S, id) THEN [S EXCEPT !.routines[id] = updated] ELSE S

\* addUserTask: push onto the user's array
addUserTask(S, id, t) ==
    [S EXCEPT !.tasks = Append(@, id), !.taskObj = (id :> t) @@ @, !.nextId = id]

\* addUserRoutine: push onto the user's array
addUserRoutine(S, r) == [S EXCEPT !.routines = Append(@, r)]

\* removeUserTask: the array is replaced by a filtered copy
removeUserTask(S, id) ==
    [S EXCEPT !.tasks = SelectSeq(@, LAMBDA x : x # id)]

\* ------------------------------------------------------------ task tools
Ok(S) == [ok |-> TRUE, store |-> S]
Throw(S) == [ok |-> FALSE, store |-> S]

\* the check both task tools and both routine tools make on an annoyance argument
AnnoyanceRejected(x) == Truthy(x) /\ x \notin Annoyances

AddTaskExecute(S, args) ==
    IF AnnoyanceRejected(args.annoyance) THEN Throw(S)
    ELSE LET newTask == [name |-> args.arg_name,
                         routineId |-> args.routine_id,
                         status |-> "pending",
                         annoyance |-> IF Truthy(args.annoyance) THEN args.annoyance ELSE "low",
                         pingAt |-> DateOf(args.ping_at),
                         dueAt |-> IF TruthyDate(args.due_at) THEN DateOf(args.due_at) ELSE NoDate,
                         requiresAction |-> (args.requires_action = "true"),
                         postponeCount |-> 0]
         IN Ok(addUserTask(S, S.nextId + 1, newTask))

\* variant: a default delay from now replaces the supplied time
UpdateTaskFn_PolicyDelay(args, task) ==
    LET t1 == IF args.status # "none" THEN [task EXCEPT !.status = args.status] ELSE task
        t3 == IF args.ping_at # NoDate
              THEN [t1 EXCEPT !.pingAt = now + 1, !.status = "pending"]
              ELSE t1
    IN t3

\* the update UpdateTask applies to the stored task, assignment by assignment
UpdateTaskFn(args, task) ==
    LET t0 == IF args.arg_name # "none" THEN [task EXCEPT !.name = args.arg_name] ELSE task
        t1 == IF args.status # "none" THEN [t0 EXCEPT !.status = args.status] ELSE t0
        ta == IF args.annoyance # "none" THEN [t1 EXCEPT !.annoyance = args.annoyance] ELSE t1
        t2 == IF args.due_at # NoDate
              THEN [ta EXCEPT !.dueAt = IF TruthyDate(args.due_at) THEN DateOf(args.due_at)
                                        ELSE NoDate]
              ELSE ta
        t3 == IF args.ping_at # NoDate
              THEN [t2 EXCEPT !.pingAt = IF TruthyDate(args.ping_at) THEN DateOf(args.ping_at)
                                         ELSE @,
                              !.status = "pending"]
              ELSE t2
        t4 == IF args.requires_action # "none"
              THEN [t3 EXCEPT !.requiresAction = (args.requires_action = "true")]
              ELSE t3
        t5 == IF TruthyDate(args.due_at)
              THEN [t4 EXCEPT !.postponeCount = @ + 1]
              ELSE t4
    IN t5

UpdateTaskExecute(S, args) ==
    IF Truthy(args.status) /\ args.status \notin Statuses THEN Throw(S)
    ELSE IF AnnoyanceRejected(args.annoyance) THEN Throw(S)
    ELSE IF ~getTask(S, args.task_id) THEN Throw(S)
    ELSE Ok(updateUserTask(S, args.task_id, UpdateTaskFn(args, S.taskObj[args.task_id])))

\* the stats update the two Mark tools make when the task came from a routine
BumpStats(S, routineId, field) ==
    IF routineId = NoId \/ ~getRoutine(S, routineId) THEN S
    ELSE updateUserRoutine(S, routineId,
            IF field = "completed"
            THEN [S.routines[routineId] EXCEPT !.completed = @ + 1]
            ELSE [S.routines[routineId] EXCEPT !.failed = @ + 1])

MarkTaskCompleteExecute(S, args) ==
    IF ~getTask(S, args.task_id) THEN Throw(S)
    ELSE LET existingTask == S.taskObj[args.task_id]
             S1 == updateUserTask(S, args.task_id, [existingTask EXCEPT !.status = "completed"])
         IN Ok(BumpStats(S1, existingTask.routineId, "completed"))

MarkTaskFailedExecute(S, args) ==
    IF ~getTask(S, args.task_id) THEN Throw(S)
    ELSE LET existingTask == S.taskObj[args.task_id]
             S1 == updateUserTask(S, args.task_id, [existingTask EXCEPT !.status = "failed"])
         IN Ok(BumpStats(S1, existingTask.routineId, "failed"))

DeleteTaskExecute(S, args) ==
    IF ~getTask(S, args.task_id) THEN Throw(S)
    ELSE Ok(removeUserTask(S, args.task_id))

\* GetTaskById returns the stored task itself
GetTaskByIdExecute(S, args) ==
    IF ~getTask(S, args.task_id) THEN Throw(S)
    ELSE [ok |-> TRUE, store |-> S, task |-> S.taskObj[args.task_id]]

\* ---------------------------------------------------------- routine tools
add_routineExecute(S, args) ==
    IF AnnoyanceRejected(args.default_annoyance) THEN Throw(S)
    ELSE LET newRoutine ==
               [name |-> args.arg_name,
                cron |-> args.cron,
                defaultAnnoyance |-> IF Truthy(args.default_annoyance)
                                     THEN args.default_annoyance ELSE "low",
                requiresAction |-> (args.requires_action # "false"),
                isActive |-> (args.is_active # "false"),
                completed |-> 0,
                failed |-> 0]
         IN Ok(addUserRoutine(S, newRoutine))

\* the update update_routine applies to the stored routine
update_routineFn(args, routine) ==
    LET r1 == IF args.arg_name # "none" THEN [routine EXCEPT !.name = args.arg_name] ELSE routine
        r2 == IF args.cron # "none" THEN [r1 EXCEPT !.cron = args.cron] ELSE r1
        r3 == IF args.default_annoyance # "none"
              THEN [r2 EXCEPT !.defaultAnnoyance = args.default_annoyance] ELSE r2
        r4 == IF args.requires_action # "none"
              THEN [r3 EXCEPT !.requiresAction = (args.requires_action = "true")] ELSE r3
        r5 == IF args.is_active # "none"
              THEN [r4 EXCEPT !.isActive = (args.is_active = "true")] ELSE r4
    IN r5

update_routineExecute(S, args) ==
    IF AnnoyanceRejected(args.default_annoyance) THEN Throw(S)
    ELSE IF ~getRoutine(S, args.routine_id) THEN Throw(S)
    ELSE Ok(updateUserRoutine(S, args.routine_id,
                              update_routineFn(args, S.routines[args.routine_id])))

\* the tools the registry knows
ToolNames == {"AddTask", "UpdateTask", "MarkTaskComplete", "MarkTaskFailed", "DeleteTask",
              "GetTaskById", "add_routine", "update_routine"}

\* variant: the agent's own userId argument, when there is one, wins
ToolArgs_AgentWins(call, userId) ==
    IF call.userId = NoId THEN [call EXCEPT !.userId = userId] ELSE call

\* {...args, userId}: the arguments the tool is run with, the pass's user id
\* written over whatever the agent put there
ToolArgs(call, userId) == [call EXCEPT !.userId = userId]

\* variant: a failure inside executeTool is turned into an ordinary result
executeTool_Swallow(S, call) ==
    IF call.name \notin ToolNames \/ ~call.json THEN Ok(S)
    ELSE CASE call.name = "AddTask" -> AddTaskExecute(S, call)
           [] call.name = "UpdateTask" -> UpdateTaskExecute(S, call)
           [] call.name = "MarkTaskComplete" -> MarkTaskCompleteExecute(S, call)
           [] call.name = "MarkTaskFailed" -> MarkTaskFailedExecute(S, call)
           [] call.name = "DeleteTask" -> DeleteTaskExecute(S, call)
           [] call.name = "GetTaskById" -> GetTaskByIdExecute(S, call)
           [] call.name = "add_routine" -> add_routineExecute(S, call)
           [] call.name = "update_routine" -> update_routineExecute(S, call)

\* executeTool: look the tool up by name, parse the arguments, run the tool,
\* rethrow whatever any of the three throws
executeTool(S, call) ==
    IF call.name \notin ToolNames \/ ~call.json THEN Throw(S)
    ELSE CASE call.name = "AddTask" -> AddTaskExecute(S, call)
           [] call.name = "UpdateTask" -> UpdateTaskExecute(S, call)
           [] call.name = "MarkTaskComplete" -> MarkTaskCompleteExecute(S, call)
           [] call.name = "MarkTaskFailed" -> MarkTaskFailedExecute(S, call)
           [] call.name = "DeleteTask" -> DeleteTaskExecute(S, call)
           [] call.name = "GetTaskById" -> GetTaskByIdExecute(S, call)
           [] call.name = "add_routine" -> add_routineExecute(S, call)
           [] call.name = "update_routine" -> update_routineExecute(S, call)

\* ------------------------------------------------------ conversation history
HistoryCap == 5000

KeepLast(h, n) == IF Len(h) > n THEN SubSeq(h, Len(h) - n + 1, Len(h)) ELSE h

\* addMessageToHistory: push, then keep only the last 5000 entries
addMessageToHistory(h, role, content) ==
    KeepLast(Append(h, [role |-> role, content |-> content]), HistoryCap)

\* -------------------------------------------------------- orchestration loop
\* variant: the depth is never looked at
EnableToolCalls_NoBreaker(depth, requested) == requested

\* variant: the comparison is off by one
EnableToolCalls_OffByOne(depth, requested) ==
    IF depth > MaxRecursionDepth THEN FALSE ELSE requested

\* streamAIResponse: tool calling is switched off once the depth reaches 5
EnableToolCalls(depth, requested) ==
    IF depth >= MaxRecursionDepth THEN FALSE ELSE requested

\* the frame streamAIResponseInternal starts with for the given options
NewFrame(depth, requested, addUser, addAssistant, appended) ==
    [currentRecursionDepth |-> depth,
     enableToolCalls |-> EnableToolCalls(depth, requested),
     addUserToHistory |-> addUser,
     addAssistantToHistory |-> addAssistant,
     appendMessagesAfterUser |-> appended,
     pc |-> "stream",
     toolCalls |-> <<>>,
     executed |-> <<>>,
     newAppendedMessages |-> <<>>,
     aiResponseAccumulated |-> <<>>,
     historyResponseAccumulated |-> <<>>]

\* variant: the recursive call is handed the context the pass started with
RecursiveFrame_KeepContext(f) ==
    NewFrame(f.currentRecursionDepth + 1, f.enableToolCalls, FALSE,
             f.addAssistantToHistory, f.appendMessagesAfterUser)

\* the options of the recursive call: the caller's options with the depth
\* raised, the context extended and addUserToHistory switched off
RecursiveFrame(f) ==
    NewFrame(f.currentRecursionDepth + 1, f.enableToolCalls, FALSE,
             f.addAssistantToHistory, f.newAppendedMessages)

Top == frames[Len(frames)]
SetTop(f) == [frames EXCEPT ![Len(frames)] = f]
Pop == SubSeq(frames, 1, Len(frames) - 1)

\* what the caller does with the value a returning pass hands back
Resume(parent, rawResponse) ==
    [parent EXCEPT !.historyResponseAccumulated = @ \o rawResponse,
                   !.pc = "finalize"]

ReturnTo(stack, rawResponse) ==
    IF stack = <<>> THEN stack
    ELSE [stack EXCEPT ![Len(stack)] = Resume(@, rawResponse)]

\* ---------------------------------------------------- what the user is shown
\* the transport errors a stream may break with
Errors == {"timeout", "reset"}

\* the text the catch block sends and returns: a fixed frame around the
\* error's own message
errorMessage(error) == <<Tok("Oops", 0), Tok(error, 0)>>

\* how much of a pass's text reaches the chat while the stream is read: the
\* buffer stays empty, the text is shown once at the end, or the refresh
\* timer shows a partial text first
Shown == {"none", "final", "refreshed"}

\* one bot.sendMessage or bot.editMessageText
Msg(op, depth, text) == [op |-> op, depth |-> depth, text |-> text]

\* updateTelegramMessage(false) as the refresh timer calls it
PartialMessage(op, depth) == Msg(op, depth, <<Tok("text", depth), Tok("...", depth)>>)

\* the messages one pass shows up to and including updateTelegramMessage(true)
PassMessages(depth, shown) ==
    IF shown = "none" THEN <<>>
    ELSE IF shown = "final" THEN <<Msg("send", depth, <<Tok("text", depth)>>)>>
    ELSE <<PartialMessage("send", depth), Msg("edit", depth, <<Tok("text", depth)>>)>>

\* the stream of one pass ends normally, having assembled toolCalls
StreamDone(calls, shown) ==
    /\ frames # <<>>
    /\ Top.pc = "stream"
    /\ outbox' = outbox \o PassMessages(Top.currentRecursionDepth, shown)
    /\ LET f == Top
           text == IF shown = "none" THEN <<>> ELSE <<Tok("text", f.currentRecursionDepth)>>
           run == Len(calls) > 0 /\ f.enableToolCalls
       IN frames' = SetTop([f EXCEPT
              !.toolCalls = calls,
              !.aiResponseAccumulated = text,
              !.historyResponseAccumulated = text,
              !.newAppendedMessages =
                  IF run
                  THEN Append(f.appendMessagesAfterUser,
                              [role |-> "assistant", tool_calls |-> calls, tool_call_id |-> 0, ok |-> TRUE])
                  ELSE <<>>,
              !.pc = IF run THEN "exec" ELSE "finalize"])
    /\ UNCHANGED <<storeVars, tickVars, messageHistory, invFailed,
                   awaitingAgent, lastPass, liveIntervals, replyPc>>
    /\ UNCHANGED sideVars

\* opening or reading the stream throws: the catch block sends the apology
\* and returns it.  `unsent` says that the stream broke while it was read,
\* with more than 100 characters in the buffer that were not yet shown: the
\* refresh timer, cleared only on a finish_reason, is then still running
StreamFail(error, unsent) ==
    /\ frames # <<>>
    /\ Top.pc = "stream"
    /\ frames' = ReturnTo(Pop, <<Tok("error", Top.currentRecursionDepth)>>)
    /\ invFailed' = TRUE
    /\ lastPass' = [depth |-> Top.currentRecursionDepth, tools |-> Len(Top.executed)]
    /\ outbox' = Append(outbox, Msg("send", Top.currentRecursionDepth, errorMessage(error)))
    /\ liveIntervals' = IF unsent THEN liveIntervals \cup {Top.currentRecursionDepth}
                        ELSE liveIntervals
    /\ UNCHANGED <<storeVars, tickVars, messageHistory, awaitingAgent, replyPc>>
    /\ UNCHANGED sideVars

\* the refresh timer of a pass that failed fires: the buffer is longer than
\* what was shown, so the partial text is sent
IntervalFires ==
    /\ \E d \in liveIntervals :
          /\ outbox' = Append(outbox, PartialMessage("send", d))
          /\ liveIntervals' = liveIntervals \ {d}
    /\ UNCHANGED <<storeVars, tickVars, messageHistory, frames, invFailed, awaitingAgent,
                   lastPass, replyPc>>
    /\ UNCHANGED sideVars

MutatingTools == {"UpdateTask", "MarkTaskComplete", "MarkTaskFailed", "DeleteTask"}

\* variant: the calls are visited last to first
NextCallIndex_Reversed(f) == Len(f.toolCalls) - Len(f.executed)

\* the for-of loop visits toolCalls in array order
NextCallIndex(f) == Len(f.executed) + 1

\* the for-of loop is over
AllExecuted(f) == Len(f.executed) = Len(f.toolCalls)

\* one iteration of `for (const toolCall of toolCalls)`
ExecTool ==
    /\ frames # <<>>
    /\ Top.pc = "exec"
    /\ ~AllExecuted(Top)
    /\ LET f == Top
           k == NextCallIndex(f)
           call == f.toolCalls[k]
           args == ToolArgs(call, UserA)
           own == args.userId = UserA
           r == executeTool(IF own THEN Store ELSE bystander, args)
       IN /\ routines' = IF own THEN r.store.routines ELSE routines
          /\ tasks' = IF own THEN r.store.tasks ELSE tasks
          /\ taskObj' = IF own THEN r.store.taskObj ELSE taskObj
          /\ nextId' = IF own THEN r.store.nextId ELSE nextId
          /\ bystander' = IF own THEN bystander ELSE r.store
          /\ frames' = SetTop([f EXCEPT
                 !.executed = Append(@, call),
                 !.newAppendedMessages =
                     Append(@, [role |-> "tool", tool_calls |-> <<>>, tool_call_id |-> k, ok |-> r.ok]),
                 !.historyResponseAccumulated =
                     Append(@, Tok(IF r.ok THEN "success" ELSE "failed", f.currentRecursionDepth))])
          /\ awaitingAgent' =
                 IF call.name \in MutatingTools THEN awaitingAgent \ {call.task_id}
                 ELSE awaitingAgent
    /\ UNCHANGED <<tickVars, messageHistory, invFailed, lastPass, chatVars>>
    /\ UNCHANGED <<parked, clock, streaming, compaction>>

\* the recursive call made once the for loop is over
Recurse ==
    /\ frames # <<>>
    /\ Top.pc = "exec"
    /\ AllExecuted(Top)
    /\ frames' = Append(SetTop([Top EXCEPT !.pc = "await"]), RecursiveFrame(Top))
    /\ UNCHANGED <<storeVars, tickVars, messageHistory, invFailed,
                   awaitingAgent, lastPass, chatVars>>
    /\ UNCHANGED sideVars

\* the history the tail of a pass leaves behind
FinalHistory(h, f) ==
    LET h1 == IF f.addUserToHistory
              THEN addMessageToHistory(h, "user", <<Tok("userMessage", 0)>>)
              ELSE h
    IN IF f.addAssistantToHistory
       THEN addMessageToHistory(h1, "assistant", f.historyResponseAccumulated)
       ELSE h1

\* the tail of a pass: history appends, then return to the caller
Finalize ==
    /\ frames # <<>>
    /\ Top.pc = "finalize"
    /\ messageHistory' = FinalHistory(messageHistory, Top)
    /\ frames' = ReturnTo(Pop, Top.aiResponseAccumulated)
    /\ lastPass' = IF Top.newAppendedMessages = <<>>
                   THEN [depth |-> Top.currentRecursionDepth, tools |-> Len(Top.executed)]
                   ELSE lastPass
    /\ UNCHANGED <<storeVars, tickVars, invFailed, awaitingAgent, chatVars>>
    /\ UNCHANGED sideVars

\* ------------------------------------------------------------ scheduler tick
\* variant: every due task is sent to replanning
PingStatus_AlwaysReplan(task) == "needs_replanning"

\* variant: a task that requires action is failed by the scheduler itself
PingStatus_AutoFail(task) ==
    IF ~task.requiresAction THEN "completed" ELSE "failed"

\* the status the callback writes for a due task
PingStatus(task) ==
    IF ~task.requiresAction THEN "completed" ELSE "needs_replanning"

\* the callback's status write for a due task (updateUserTask by id)
PingUpdate(S, id) ==
    updateUserTask(S, id, [S.taskObj[id] EXCEPT !.status = PingStatus(S.taskObj[id])])

\* variant: the ping runs with tool calling switched off
PingOptions_NoTools == [enableToolCalls |-> FALSE, addUserToHistory |-> FALSE,
                        addAssistantToHistory |-> TRUE]

\* the options the callback passes to streamAIResponse
PingOptions == [enableToolCalls |-> TRUE, addUserToHistory |-> FALSE,
                addAssistantToHistory |-> TRUE]

\* variant: a task is due only once its time has passed
IsDue_Strict(task, t) == task.pingAt # InvalidDate /\ task.pingAt < t

\* task.pingAt <= now
IsDue(task, t) == task.pingAt # InvalidDate /\ task.pingAt <= t

\* variant: the list holds only the tasks that existed before the routines fired
PendingFilter_BeforeFiring(S) ==
    SelectSeq(S.tasks, LAMBDA id : S.taskObj[id].status = "pending" /\ id <= nextId)

\* user.tasks.filter(t => t.status === 'pending')
PendingFilter(S) == SelectSeq(S.tasks, LAMBDA id : S.taskObj[id].status = "pending")

\* ------------------------------------------------------- routine firing
MinuteMs == 60000
FireWindow == 60000

\* how far past the minute boundary a tick starts, and how long after the
\* tick took its `now` the recurrence expression is evaluated
Jitters == {0, 500}
Delays == {0, MinuteMs - 500}

\* how many ticks in a row did not run (the process was down) before a tick
MissedTicks == {0, 1}

\* recurrence expressions: every minute, every odd minute, one that does not
\* parse, and none at all
Crons == {"everyMinute", "oddMinutes"}
CronEvery(c) == IF c = "everyMinute" THEN 1 ELSE 2
CronAt(c) == IF c = "everyMinute" THEN 0 ELSE 1

\* cronInterval.next() followed by prev(): the latest firing instant that
\* is not after the moment of evaluation
lastFireTime(c, evalMs) ==
    LET q == evalMs \div MinuteMs
    IN (q - ((q - CronAt(c)) % CronEvery(c))) * MinuteMs

\* variant: a firing instant of up to two minutes ago is still caught up on
ShouldFire_Backfill(timeSinceLastFire) == timeSinceLastFire <= 2 * FireWindow

\* timeSinceLastFire <= 60000
ShouldFire(timeSinceLastFire) == timeSinceLastFire <= FireWindow

\* variant: the new task gets the lowest annoyance whatever the routine says
RoutineTask_LowAnnoyance(routine, id, t) ==
    [name |-> routine.name, routineId |-> id, status |-> "pending",
     annoyance |-> "low", pingAt |-> t, dueAt |-> NoDate,
     requiresAction |-> routine.requiresAction, postponeCount |-> 0]

\* the task instance the callback creates from a routine
RoutineTask(routine, id, t) ==
    [name |-> routine.name, routineId |-> id, status |-> "pending",
     annoyance |-> routine.defaultAnnoyance, pingAt |-> t, dueAt |-> NoDate,
     requiresAction |-> routine.requiresAction, postponeCount |-> 0]

\* the routine at position i fires in a tick whose now is nowMs and which
\* evaluates the recurrence at evalMs
Fires(routine, nowMs, evalMs) ==
    /\ routine.isActive
    /\ routine.cron \in Crons
    /\ ShouldFire(nowMs - lastFireTime(routine.cron, evalMs))

\* variant: the error of a routine whose expression does not parse leaves
\* the loop over the routines
RECURSIVE FireRoutines_AbortOnError(_, _, _, _, _, _)
FireRoutines_AbortOnError(S, F, i, t, nowMs, evalMs) ==
    IF i > Len(S.routines) THEN [store |-> S, fired |-> F]
    ELSE IF S.routines[i].isActive /\ S.routines[i].cron \notin Crons
         THEN [store |-> S, fired |-> F]
         ELSE IF Fires(S.routines[i], nowMs, evalMs)
              THEN FireRoutines_AbortOnError(
                       addUserTask(S, S.nextId + 1, RoutineTask(S.routines[i], i, t)),
                       F \cup {<<i, lastFireTime(S.routines[i].cron, evalMs), S.nextId + 1,
                                  nowMs>>},
                       i + 1, t, nowMs, evalMs)
              ELSE FireRoutines_AbortOnError(S, F, i + 1, t, nowMs, evalMs)

\* `for (const routine of user.routines)` from position i on
RECURSIVE FireRoutines(_, _, _, _, _, _)
FireRoutines(S, F, i, t, nowMs, evalMs) ==
    IF i > Len(S.routines) THEN [store |-> S, fired |-> F]
    ELSE IF Fires(S.routines[i], nowMs, evalMs)
         THEN FireRoutines(addUserTask(S, S.nextId + 1, RoutineTask(S.routines[i], i, t)),
                           F \cup {<<i, lastFireTime(S.routines[i].cron, evalMs), S.nextId + 1,
                                      nowMs>>},
                           i + 1, t, nowMs, evalMs)
         ELSE FireRoutines(S, F, i + 1, t, nowMs, evalMs)

\* the cron callback starts: take the time, fire the routines, then take the
\* list of pending tasks
TickStart(missed) ==
    /\ frames = <<>>
    /\ tickPc = "idle"
    /\ clock + missed < MaxTime
    /\ now' = clock + missed + 1
    /\ clock' = clock + missed + 1
    /\ tickPc' = "ping"
    /\ \E jitter \in Jitters, delay \in Delays :
          LET nowMs == (clock + missed + 1) * MinuteMs + jitter
              R == FireRoutines(Store, fired, 1, clock + missed + 1, nowMs, nowMs + delay)
          IN /\ routines' = R.store.routines
             /\ tasks' = R.store.tasks
             /\ taskObj' = R.store.taskObj
             /\ nextId' = R.store.nextId
             /\ fired' = R.fired
             /\ routineClock' = IF routines = <<>> THEN <<>> ELSE <<nowMs, nowMs + delay>>
             /\ pendingTasks' = PendingFilter(R.store)
    /\ prompted' = {}
    /\ UNCHANGED <<messageHistory, frames, invFailed, awaitingAgent, lastPass, chatVars>>
    /\ UNCHANGED <<bystander, parked, streaming, compaction>>

\* one iteration of `for (const task of pendingTasks)` up to the loop's start
TickPing ==
    /\ frames = <<>>
    /\ tickPc = "ping"
    /\ pendingTasks # <<>>
    /\ LET id == Head(pendingTasks)
           task == taskObj[id]
       IN IF IsDue(task, now)
          THEN LET S == PingUpdate(Store, id)
               IN /\ routines' = S.routines
                  /\ tasks' = S.tasks
                  /\ taskObj' = S.taskObj
                  /\ nextId' = S.nextId
                  /\ frames' = <<NewFrame(0, PingOptions.enableToolCalls,
                                           PingOptions.addUserToHistory,
                                           PingOptions.addAssistantToHistory, <<>>)>>
                  /\ messageHistory' = <<>>
                  /\ outbox' = <<>>
                  /\ invFailed' = FALSE
                  /\ prompted' = prompted \cup {id}
                  /\ awaitingAgent' =
                        IF task.requiresAction /\ getTask(S, id)
                        THEN awaitingAgent \cup {id}
                        ELSE awaitingAgent \ {id}
          ELSE UNCHANGED <<storeVars, frames, messageHistory, outbox, invFailed, prompted,
                           awaitingAgent>>
    /\ pendingTasks' = Tail(pendingTasks)
    /\ UNCHANGED <<now, tickPc, fired, routineClock, lastPass, liveIntervals, replyPc>>
    /\ UNCHANGED sideVars

\* the callback has visited every task of its list
TickEnd ==
    /\ frames = <<>>
    /\ tickPc = "ping"
    /\ pendingTasks = <<>>
    /\ tickPc' = "idle"
    /\ UNCHANGED <<now, pendingTasks, prompted, fired, routineClock, storeVars, messageHistory,
                   frames, invFailed, awaitingAgent, lastPass, chatVars>>
    /\ UNCHANGED sideVars

\* ------------------------------------------------------------ specification
\* a task as AddTask stores it
NewTask(pingAt, requiresAction) ==
    [name |-> "n", routineId |-> NoId, status |-> "pending", annoyance |-> "low",
     pingAt |-> pingAt, dueAt |-> NoDate, requiresAction |-> requiresAction,
     postponeCount |-> 0]

\* the other user's record: one pending task of their own
OtherUser ==
    [routines |-> <<>>, tasks |-> <<AbsentId>>,
     taskObj |-> (AbsentId :> NewTask(1, TRUE)), nextId |-> AbsentId]

\* no pass is reading a stream chunk by chunk
NoStream == [pc |-> "none"]

\* runHistoryCompaction is not running
NoCompaction == [pc |-> "idle", runs |-> {}, totalCompactions |-> 0]

\* what every run starts with besides the user's own record: the other
\* user's record, no suspended handler, no compaction running
SideInit ==
    /\ bystander = OtherUser
    /\ parked = <<>>
    /\ clock = now
    /\ streaming = NoStream
    /\ compaction = NoCompaction

\* the store holds freshly added tasks; no tick has run, no pass is in flight
Init ==
    /\ now = 0
    /\ routines = <<>>
    /\ fired = {}
    /\ routineClock = <<>>
    /\ tasks = [i \in TaskIds |-> i]
    /\ taskObj \in [TaskIds -> {NewTask(p, ra) : p \in PingArgs, ra \in BOOLEAN}]
    /\ nextId = MaxTasks
    /\ messageHistory = <<>>
    /\ frames = <<>>
    /\ tickPc = "idle"
    /\ pendingTasks = <<>>
    /\ invFailed = FALSE
    /\ prompted = {}
    /\ awaitingAgent = {}
    /\ lastPass = NoPass
    /\ outbox = <<>>
    /\ liveIntervals = {}
    /\ replyPc = "idle"
    /\ SideInit

\* what the completion service may emit in one pass of a scheduler-world run:
\* at most one call, in the first AgentRounds passes of an invocation
AgentEmits ==
    IF frames # <<>> /\ Top.currentRecursionDepth < AgentRounds
    THEN SeqsUpTo(AgentCalls, 1)
    ELSE {<<>>}

Next ==
    \/ \E calls \in AgentEmits : StreamDone(calls, "final")
    \/ StreamFail("timeout", FALSE)
    \/ ExecTool
    \/ Recurse
    \/ Finalize
    \/ TickStart(0)
    \/ TickPing
    \/ TickEnd

Spec == Init /\ [][Next]_vars

\* ------------------------------------------- one invocation of the loop alone
\* the call the completion service emits: it succeeds while task 1 is stored
\* (the first time) and throws afterwards
LoopCalls == {Call("DeleteTask", 1, "none", NoDate, NoDate, "none")}

LoopEmits == SeqsUpTo(LoopCalls, MaxCalls)

\* streamAIResponse has just been entered at depth 0, with any options
LoopInit ==
    /\ now = 0
    /\ routines = <<>>
    /\ fired = {}
    /\ routineClock = <<>>
    /\ tasks = <<1>>
    /\ taskObj = [id \in TaskIds |-> IF id = 1 THEN NewTask(1, FALSE) ELSE NoTask]
    /\ nextId = 1
    /\ messageHistory = <<>>
    /\ \E e \in BOOLEAN, u \in BOOLEAN, a \in BOOLEAN :
          frames = <<NewFrame(0, e, u, a, <<>>)>>
    /\ tickPc = "idle"
    /\ pendingTasks = <<>>
    /\ invFailed = FALSE
    /\ prompted = {}
    /\ awaitingAgent = {}
    /\ lastPass = NoPass
    /\ outbox = <<>>
    /\ liveIntervals = {}
    /\ replyPc = "idle"
    /\ SideInit

LoopNext ==
    \/ \E calls \in LoopEmits : StreamDone(calls, "final")
    \/ StreamFail("timeout", FALSE)
    \/ ExecTool
    \/ Recurse
    \/ Finalize

SpecLoop == LoopInit /\ [][LoopNext]_vars

\* the loop alone, with every awaited operation eventually completing
SpecLoopFair == SpecLoop /\ WF_vars(LoopNext)

\* ------------------------------------------ the scheduler with routines
\* a routine as add_routine stores it
NewRoutine(cron, annoyance, requiresAction, isActive) ==
    [name |-> "r", cron |-> cron, defaultAnnoyance |-> annoyance,
     requiresAction |-> requiresAction, isActive |-> isActive,
     completed |-> 0, failed |-> 0]

\* the routines a run may start with
InitRoutines ==
    {NewRoutine(c, a, ra, act) :
        c \in Crons \cup {"bad"}, a \in {"low", "high"}, ra \in BOOLEAN, act \in BOOLEAN}

\* the user has routines and no task; no tick has run
RoutineInit ==
    /\ now = 0
    /\ routines \in [1..MaxRoutines -> InitRoutines]
    /\ fired = {}
    /\ routineClock = <<>>
    /\ tasks = <<>>
    /\ taskObj = <<>>
    /\ nextId = 0
    /\ messageHistory = <<>>
    /\ frames = <<>>
    /\ tickPc = "idle"
    /\ pendingTasks = <<>>
    /\ invFailed = FALSE
    /\ prompted = {}
    /\ awaitingAgent = {}
    /\ lastPass = NoPass
    /\ outbox = <<>>
    /\ liveIntervals = {}
    /\ replyPc = "idle"
    /\ SideInit

\* the ticks, with a completion service that answers every ping in plain text
RoutineNext ==
    \/ \E missed \in MissedTicks : TickStart(missed)
    \/ TickPing
    \/ TickEnd
    \/ StreamDone(<<>>, "final")
    \/ StreamFail("timeout", FALSE)
    \/ Finalize

SpecRoutine == RoutineInit /\ [][RoutineNext]_vars

\* ------------------------------- a tick over several routines and tasks
\* the user has two routines, the first one possibly with an expression that
\* does not parse, and two pending tasks; no tick has run
TickInit ==
    /\ now = 0
    /\ \E c \in {"bad", "oddMinutes"}, ra \in BOOLEAN :
          routines = <<NewRoutine(c, "low", TRUE, TRUE),
                       NewRoutine("everyMinute", "high", ra, TRUE)>>
    /\ fired = {}
    /\ routineClock = <<>>
    /\ tasks = <<1, 2>>
    /\ taskObj \in [1..2 -> {NewTask(p, ra) : p \in PingArgs, ra \in BOOLEAN}]
    /\ nextId = 2
    /\ messageHistory = <<>>
    /\ frames = <<>>
    /\ tickPc = "idle"
    /\ pendingTasks = <<>>
    /\ invFailed = FALSE
    /\ prompted = {}
    /\ awaitingAgent = {}
    /\ lastPass = NoPass
    /\ outbox = <<>>
    /\ liveIntervals = {}
    /\ replyPc = "idle"
    /\ SideInit

SpecTick == TickInit /\ [][RoutineNext]_vars

\* the same, with the cron job firing minute after minute and every awaited
\* operation eventually completing
SpecTickFair == SpecTick /\ WF_vars(RoutineNext)

\* ------------------------- a tick over several tasks, with an agent that acts
\* the first task a tick makes from the routine in a run that starts with two tasks
FirstFiredTask == 3

\* the calls the agent chooses from: it closes or removes the second task,
\* or moves the task made from the routine
RaceCalls ==
    {Call(n, 2, "none", NoDate, NoDate, "none") :
        n \in {"MarkTaskComplete", "MarkTaskFailed", "DeleteTask"}}
    \cup {Call("UpdateTask", FirstFiredTask, "none", MaxTime, NoDate, "none"),
          Call("UpdateTask", FirstFiredTask, "pending", NoDate, NoDate, "none")}

\* the first pass of an invocation carries at most one call
RaceEmits ==
    IF frames # <<>> /\ Top.currentRecursionDepth = 0
    THEN SeqsUpTo(RaceCalls, 1)
    ELSE {<<>>}

\* the user has one routine that fires every minute and two pending tasks
\* that are due at the first tick; no tick has run
RaceInit ==
    /\ now = 0
    /\ \E ra \in BOOLEAN : routines = <<NewRoutine("everyMinute", "high", ra, TRUE)>>
    /\ fired = {}
    /\ routineClock = <<>>
    /\ tasks = <<1, 2>>
    /\ taskObj \in [1..2 -> {NewTask(1, ra) : ra \in BOOLEAN}]
    /\ nextId = 2
    /\ messageHistory = <<>>
    /\ frames = <<>>
    /\ tickPc = "idle"
    /\ pendingTasks = <<>>
    /\ invFailed = FALSE
    /\ prompted = {}
    /\ awaitingAgent = {}
    /\ lastPass = NoPass
    /\ outbox = <<>>
    /\ liveIntervals = {}
    /\ replyPc = "idle"
    /\ SideInit

RaceNext ==
    \/ \E calls \in RaceEmits : StreamDone(calls, "final")
    \/ StreamFail("timeout", FALSE)
    \/ ExecTool
    \/ Recurse
    \/ Finalize
    \/ TickStart(0)
    \/ TickPing
    \/ TickEnd

SpecRace == RaceInit /\ [][RaceNext]_vars

\* ------------------------------------------- tool calls of arbitrary shape
\* complete calls of the six state-mutating tools on task 1 and routine 1
FullAddTask == [Call("AddTask", NoId, "none", 1, NoDate, "none") EXCEPT !.arg_name = "n"]
FullUpdateTask == [Call("UpdateTask", 1, "none", NoDate, NoDate, "none") EXCEPT !.annoyance = "high"]
FullAddRoutine ==
    [Call("add_routine", NoId, "none", NoDate, NoDate, "none")
        EXCEPT !.arg_name = "r", !.cron = "everyMinute"]
FullUpdateRoutine ==
    [Call("update_routine", NoId, "none", NoDate, NoDate, "none")
        EXCEPT !.routine_id = 1, !.is_active = "false"]

\* what the completion service may put into a call: arguments left out,
\* values outside the enumerations, empty strings, ids that name nothing, a
\* tool the registry does not know, an argument string that is not JSON,
\* the id of another user with or without the id of that user's task
ToolCalls ==
    {FullAddTask,
     [FullAddTask EXCEPT !.ping_at = NoDate],
     [FullAddTask EXCEPT !.arg_name = "none"],
     [FullAddTask EXCEPT !.annoyance = "bogus"],
     [FullAddTask EXCEPT !.annoyance = ""],
     [FullAddTask EXCEPT !.routine_id = AbsentId],
     [FullAddTask EXCEPT !.json = FALSE],
     [FullAddTask EXCEPT !.ping_at = BadDate],
     [FullAddTask EXCEPT !.due_at = MaxTime, !.requires_action = "true", !.annoyance = "med"],
     FullUpdateTask,
     [FullUpdateTask EXCEPT !.ping_at = BadDate],
     [FullUpdateTask EXCEPT !.ping_at = EmptyDate],
     [FullUpdateTask EXCEPT !.status = ""],
     [FullUpdateTask EXCEPT !.status = "bogus"],
     [FullUpdateTask EXCEPT !.annoyance = "bogus"],
     [FullUpdateTask EXCEPT !.annoyance = ""],
     [FullUpdateTask EXCEPT !.task_id = NoId],
     [FullUpdateTask EXCEPT !.task_id = AbsentId],
     FullAddRoutine,
     [FullAddRoutine EXCEPT !.cron = "none"],
     [FullAddRoutine EXCEPT !.cron = "bad"],
     [FullUpdateRoutine EXCEPT !.cron = "bad"],
     [FullUpdateRoutine EXCEPT !.cron = "oddMinutes"],
     [FullAddRoutine EXCEPT !.arg_name = "none"],
     [FullAddRoutine EXCEPT !.default_annoyance = "bogus"],
     [FullAddRoutine EXCEPT !.default_annoyance = ""],
     FullUpdateRoutine,
     [FullUpdateRoutine EXCEPT !.default_annoyance = "med"],
     [FullUpdateRoutine EXCEPT !.default_annoyance = ""],
     [FullUpdateRoutine EXCEPT !.default_annoyance = "bogus"],
     [FullUpdateRoutine EXCEPT !.routine_id = NoId],
     [FullUpdateRoutine EXCEPT !.routine_id = AbsentId],
     [FullAddTask EXCEPT !.userId = UserB],
     [FullUpdateTask EXCEPT !.userId = UserB],
     [FullUpdateTask EXCEPT !.userId = UserB, !.task_id = AbsentId],
     [Call("DeleteTask", AbsentId, "none", NoDate, NoDate, "none") EXCEPT !.userId = UserB],
     Call("NoSuchTool", 1, "none", NoDate, NoDate, "none")}
    \cup {Call(n, id, "none", NoDate, NoDate, "none") :
             n \in {"MarkTaskComplete", "MarkTaskFailed", "DeleteTask"},
             id \in {1, NoId, AbsentId}}

\* the calls that are combined into passes of several calls: the four ways
\* an execution throws, a task removal that succeeds once, and the two
\* calls that close a task
SeveralCalls ==
    {Call("NoSuchTool", 1, "none", NoDate, NoDate, "none"),
     [FullAddTask EXCEPT !.json = FALSE],
     [FullUpdateTask EXCEPT !.status = "bogus"],
     Call("DeleteTask", 1, "none", NoDate, NoDate, "none"),
     Call("MarkTaskComplete", 1, "none", NoDate, NoDate, "none"),
     Call("MarkTaskFailed", 1, "none", NoDate, NoDate, "none"),
     FullAddTask}

\* the first pass of an invocation carries one call of any shape or several
\* of the calls above, later passes plain text
ToolsEmits ==
    IF frames # <<>> /\ Top.pc = "stream" /\ Top.currentRecursionDepth = 0
    THEN {<<c>> : c \in ToolCalls} \cup SeqsUpTo(SeveralCalls, MaxCalls)
    ELSE {<<>>}

\* streamAIResponse has just been entered with tool calling enabled; the
\* user has one routine and one task made from it
ToolsInit ==
    /\ now = 0
    /\ routines = <<NewRoutine("everyMinute", "low", TRUE, TRUE)>>
    /\ fired = {}
    /\ routineClock = <<>>
    /\ tasks = <<1>>
    /\ \E st \in Statuses : taskObj = (1 :> [RoutineTask(routines[1], 1, 1) EXCEPT !.status = st])
    /\ nextId = 1
    /\ messageHistory = <<>>
    /\ frames = <<NewFrame(0, TRUE, TRUE, TRUE, <<>>)>>
    /\ tickPc = "idle"
    /\ pendingTasks = <<>>
    /\ invFailed = FALSE
    /\ prompted = {}
    /\ awaitingAgent = {}
    /\ lastPass = NoPass
    /\ outbox = <<>>
    /\ liveIntervals = {}
    /\ replyPc = "idle"
    /\ SideInit

ToolsNext ==
    \/ \E calls \in ToolsEmits : StreamDone(calls, "final")
    \/ StreamFail("timeout", FALSE)
    \/ ExecTool
    \/ Recurse
    \/ Finalize

SpecTools == ToolsInit /\ [][ToolsNext]_vars

\* ------------------------------------------------- a message from the user
RetentionCeiling == 50

\* task.createdAt, as an order: tasks are created in the order of their ids
createdAt(id) == id

\* [...tasks].sort((a, b) => b.createdAt.getTime() - a.createdAt.getTime()):
\* newest first, tasks of equal age in array order
SortNewestFirst(q) == SortSeq(q, LAMBDA a, b : createdAt(a) > createdAt(b))

\* the cleanup replyToUser makes once the loop has returned: more than 50
\* tasks are cut down to the 50 newest
TaskCleanup(S) ==
    IF Len(S.tasks) > RetentionCeiling
    THEN [S EXCEPT !.tasks = SubSeq(SortNewestFirst(S.tasks), 1, RetentionCeiling)]
    ELSE S

\* replyToUser after `await AIService.streamAIResponse(...)`
ReplyCleanup ==
    /\ replyPc = "stream"
    /\ SideInit
    /\ frames = <<>>
    /\ LET S == TaskCleanup(Store)
       IN /\ routines' = S.routines
          /\ tasks' = S.tasks
          /\ taskObj' = S.taskObj
          /\ nextId' = S.nextId
    /\ replyPc' = "done"
    /\ UNCHANGED <<tickVars, messageHistory, frames, invFailed, awaitingAgent, lastPass,
                   outbox, liveIntervals>>
    /\ UNCHANGED sideVars

\* the options replyToUser passes to streamAIResponse
ReplyOptions == [enableToolCalls |-> TRUE, addUserToHistory |-> TRUE,
                 addAssistantToHistory |-> TRUE]

\* how many tasks the user has when the message arrives
ReplyTaskCounts == {RetentionCeiling - 1, RetentionCeiling}

\* the tasks whose status varies from run to run: the oldest ones
OldestTasks == 1..2

\* replyToUser has just entered the loop for a user message; the user's
\* record is at or just below the retention ceiling, its oldest tasks in any
\* status, the others completed
ReplyInit ==
    /\ now = 0
    /\ routines = <<>>
    /\ fired = {}
    /\ routineClock = <<>>
    /\ \E n \in ReplyTaskCounts, st \in [OldestTasks -> Statuses] :
          /\ tasks = [i \in 1..n |-> i]
          /\ taskObj = [i \in 1..n |->
                           [NewTask(1, TRUE) EXCEPT
                               !.status = IF i \in OldestTasks THEN st[i] ELSE "completed"]]
          /\ nextId = n
    /\ messageHistory = <<>>
    /\ frames = <<NewFrame(0, ReplyOptions.enableToolCalls, ReplyOptions.addUserToHistory,
                            ReplyOptions.addAssistantToHistory, <<>>)>>
    /\ tickPc = "idle"
    /\ pendingTasks = <<>>
    /\ invFailed = FALSE
    /\ prompted = {}
    /\ awaitingAgent = {}
    /\ lastPass = NoPass
    /\ outbox = <<>>
    /\ liveIntervals = {}
    /\ replyPc = "stream"
    /\ SideInit

\* the first pass creates up to MaxCalls tasks, later passes answer in text
ReplyEmits ==
    IF frames # <<>> /\ Top.pc = "stream" /\ Top.currentRecursionDepth = 0
    THEN SeqsUpTo({FullAddTask}, MaxCalls)
    ELSE {<<>>}

ReplyNext ==
    \/ \E calls \in ReplyEmits, shown \in Shown : StreamDone(calls, shown)
    \/ \E error \in Errors, unsent \in BOOLEAN : StreamFail(error, unsent)
    \/ ExecTool
    \/ Recurse
    \/ Finalize
    \/ IntervalFires
    \/ ReplyCleanup

SpecReply == ReplyInit /\ [][ReplyNext]_vars

\* ------------------------------------------ handlers that overlap in time
\* how many handlers may be suspended at once
MaxParked == 2

\* what a handler holds on to while it awaits: its call stack, the
\* callback's position, list and `now`, replyToUser's position
Context ==
    [frames |-> frames, tickPc |-> tickPc, pendingTasks |-> pendingTasks,
     prompted |-> prompted, now |-> now, replyPc |-> replyPc]

\* no handler is running
Idle == frames = <<>> /\ tickPc = "idle" /\ replyPc # "stream"

\* the sequence without its i-th element
RemoveAt(q, i) == SubSeq(q, 1, i - 1) \o SubSeq(q, i + 1, Len(q))

\* the running handler awaits the completion service: nothing holds the
\* event loop, which is free to run another handler
Yield ==
    /\ frames # <<>>
    /\ Top.pc = "stream"
    /\ Len(parked) < MaxParked
    /\ parked' = Append(parked, Context)
    /\ frames' = <<>>
    /\ tickPc' = "idle"
    /\ pendingTasks' = <<>>
    /\ prompted' = {}
    /\ replyPc' = "idle"
    /\ UNCHANGED <<storeVars, now, fired, routineClock, messageHistory, invFailed,
                   awaitingAgent, lastPass, outbox, liveIntervals, bystander, clock,
                   streaming, compaction>>

\* the completion service answers a suspended handler, which goes on from
\* where it was
ResumeParked ==
    /\ Idle
    /\ \E i \in 1..Len(parked) :
          /\ frames' = parked[i].frames
          /\ tickPc' = parked[i].tickPc
          /\ pendingTasks' = parked[i].pendingTasks
          /\ prompted' = parked[i].prompted
          /\ now' = parked[i].now
          /\ replyPc' = parked[i].replyPc
          /\ parked' = RemoveAt(parked, i)
    /\ UNCHANGED <<storeVars, fired, routineClock, messageHistory, invFailed,
                   awaitingAgent, lastPass, outbox, liveIntervals, bystander, clock,
                   streaming, compaction>>

\* bot.on('message') for a text of a known user: replyToUser enters the loop
MessageArrives ==
    /\ Idle
    /\ replyPc = "idle"
    /\ frames' = <<NewFrame(0, ReplyOptions.enableToolCalls, ReplyOptions.addUserToHistory,
                             ReplyOptions.addAssistantToHistory, <<>>)>>
    /\ replyPc' = "stream"
    /\ messageHistory' = <<>>
    /\ outbox' = <<>>
    /\ invFailed' = FALSE
    /\ UNCHANGED <<storeVars, tickVars, awaitingAgent, lastPass, liveIntervals, sideVars>>

\* ticks and messages of one user, with an agent that answers in plain text
OverlapNext ==
    \/ StreamDone(<<>>, "final")
    \/ StreamFail("timeout", FALSE)
    \/ Finalize
    \/ TickStart(0)
    \/ TickPing
    \/ TickEnd
    \/ Yield
    \/ ResumeParked
    \/ MessageArrives
    \/ ReplyCleanup

SpecOverlap == RaceInit /\ [][OverlapNext]_vars

\* ------------------------------------------- one pass, chunk by chunk
\* a tool-call delta that carries no index
NoIndex == -1

\* one element of delta.tool_calls: the index of the call it belongs to and
\* a fragment of the name and of the argument string (a string is the
\* sequence of its pieces, the empty string the empty sequence)
Delta(index, name, arguments) ==
    [index |-> index, id |-> "", name |-> name, arguments |-> arguments]

\* one chunk of the stream: the characters of content it adds, its tool-call
\* deltas, and whether it carries a finish_reason
Chunk(content, deltas, finish) ==
    [content |-> content, tool_calls |-> deltas, finish_reason |-> finish]

\* the length of a content delta, and the lead the buffer needs over what
\* was shown before the timer refreshes the message
ContentChars == 150
RefreshLead == 100

\* the chunks a stream is made of: text, the pieces of one call's name and
\* arguments spread over several chunks, a chunk with pieces of two calls,
\* and a delta without index
Chunks ==
    {Chunk(ContentChars, <<>>, FALSE),
     Chunk(0, <<Delta(0, <<"Add">>, <<>>)>>, FALSE),
     Chunk(0, <<Delta(0, <<"Task">>, <<"{a">>)>>, FALSE),
     Chunk(0, <<Delta(1, <<"Del">>, <<"{b">>), Delta(0, <<>>, <<"}">>)>>, FALSE),
     Chunk(0, <<Delta(NoIndex, <<"x">>, <<"y">>)>>, FALSE)}

\* the chunk that ends a stream
LastChunk == Chunk(0, <<>>, TRUE)

\* how many chunks a stream has before its last one
MaxChunks == MaxCalls + 1

\* an element of the toolCalls array that was never assigned
NoCall == [hole |-> TRUE, id |-> "", name |-> <<>>, arguments |-> <<>>]

\* toolCalls[index] = ... on an array that is too short: the array grows,
\* the elements in between stay unassigned
Grow(toolCalls, n) ==
    toolCalls \o [k \in 1..(n - Len(toolCalls)) |-> NoCall]

\* variant: a fragment replaces what was assembled so far
ApplyDelta_Overwrite(toolCalls, delta) ==
    IF delta.index = NoIndex THEN toolCalls
    ELSE LET g == Grow(toolCalls, delta.index + 1)
             currentToolCall ==
                 IF g[delta.index + 1].hole
                 THEN [hole |-> FALSE, id |-> delta.id, name |-> <<>>, arguments |-> <<>>]
                 ELSE g[delta.index + 1]
         IN [g EXCEPT ![delta.index + 1] =
                [currentToolCall EXCEPT
                    !.name = IF delta.name # <<>> THEN delta.name ELSE @,
                    !.arguments = IF delta.arguments # <<>> THEN delta.arguments ELSE @]]

\* the body of `for (const toolCallDelta of delta.tool_calls)`: a delta
\* without index is skipped, a new index starts an empty call, and the
\* fragments are appended to the call's name and arguments
ApplyDelta(toolCalls, delta) ==
    IF delta.index = NoIndex THEN toolCalls
    ELSE LET g == Grow(toolCalls, delta.index + 1)
             currentToolCall ==
                 IF g[delta.index + 1].hole
                 THEN [hole |-> FALSE, id |-> delta.id, name |-> <<>>, arguments |-> <<>>]
                 ELSE g[delta.index + 1]
         IN [g EXCEPT ![delta.index + 1] =
                [currentToolCall EXCEPT
                    !.name = IF delta.name # <<>> THEN @ \o delta.name ELSE @,
                    !.arguments = IF delta.arguments # <<>> THEN @ \o delta.arguments ELSE @]]

\* the deltas of one chunk, applied in order
RECURSIVE ApplyDeltas(_, _)
ApplyDeltas(toolCalls, deltas) ==
    IF deltas = <<>> THEN toolCalls
    ELSE ApplyDeltas(ApplyDelta(toolCalls, Head(deltas)), Tail(deltas))

\* how many calls to updateTelegramMessage may be awaiting the transport at once
MaxInFlight == 2

\* the locals of streamAIResponseInternal when the stream has been opened
NewStream(chunks) ==
    [pc |-> "read", chunks |-> chunks, read |-> <<>>, toolCalls |-> <<>>,
     aiResponseAccumulated |-> 0, lastSentContent |-> 0, messageId |-> 0,
     intervalOn |-> TRUE, inFlight |-> <<>>, created |-> 0]

\* one iteration of `for await (const chunk of stream)`
ReadChunk ==
    /\ streaming.pc = "read"
    /\ streaming.chunks # <<>>
    /\ LET chunk == Head(streaming.chunks)
       IN streaming' = [streaming EXCEPT
              !.chunks = Tail(@),
              !.read = Append(@, chunk),
              !.aiResponseAccumulated = @ + chunk.content,
              !.toolCalls = ApplyDeltas(@, chunk.tool_calls),
              !.intervalOn = IF chunk.finish_reason THEN FALSE ELSE @,
              !.pc = IF chunk.finish_reason THEN "flush" ELSE @]
    /\ UNCHANGED <<storeVars, tickVars, messageHistory, frames, invFailed, awaitingAgent,
                   lastPass, chatVars, bystander, parked, clock, compaction>>

\* updateTelegramMessage up to its await: nothing to do for an empty
\* buffer, a new message while messageId is unset, an edit afterwards
StartUpdate(st, isFinal) ==
    IF st.aiResponseAccumulated = 0 THEN st
    ELSE [st EXCEPT !.inFlight =
             Append(@, [op |-> IF st.messageId = 0 THEN "send" ELSE "edit",
                        message_id |-> st.messageId, isFinal |-> isFinal])]

\* the setInterval callback runs: the buffer is more than 100 characters
\* ahead of what was shown
TimerFires ==
    /\ streaming.pc = "read"
    /\ streaming.intervalOn
    /\ streaming.aiResponseAccumulated > streaming.lastSentContent + RefreshLead
    /\ Len(streaming.inFlight) < MaxInFlight
    /\ streaming' = StartUpdate(streaming, FALSE)
    /\ UNCHANGED <<storeVars, tickVars, messageHistory, frames, invFailed, awaitingAgent,
                   lastPass, chatVars, bystander, parked, clock, compaction>>

\* the loop is over: updateTelegramMessage(true)
FinalFlush ==
    /\ streaming.pc = "flush"
    /\ streaming' = [StartUpdate(streaming, TRUE) EXCEPT
                        !.pc = IF streaming.aiResponseAccumulated = 0 THEN "done"
                               ELSE "flushing"]
    /\ UNCHANGED <<storeVars, tickVars, messageHistory, frames, invFailed, awaitingAgent,
                   lastPass, chatVars, bystander, parked, clock, compaction>>

\* bot.sendMessage or bot.editMessageText of one awaiting call resolves:
\* a sent message gives messageId its value, and lastSentContent becomes
\* what the buffer holds by now
UpdateResolves ==
    /\ \E i \in 1..Len(streaming.inFlight) :
          LET u == streaming.inFlight[i]
              text == IF u.isFinal THEN <<Tok("text", 0)>>
                      ELSE <<Tok("text", 0), Tok("...", 0)>>
          IN /\ outbox' = Append(outbox, Msg(u.op, 0, text))
             /\ streaming' = [streaming EXCEPT
                    !.inFlight = RemoveAt(@, i),
                    !.created = IF u.op = "send" THEN @ + 1 ELSE @,
                    !.messageId = IF u.op = "send" THEN streaming.created + 1 ELSE @,
                    !.lastSentContent = streaming.aiResponseAccumulated,
                    !.pc = IF u.isFinal THEN "done" ELSE @]
    /\ UNCHANGED <<storeVars, tickVars, messageHistory, frames, invFailed, awaitingAgent,
                   lastPass, liveIntervals, replyPc, bystander, parked, clock, compaction>>

\* a pass has opened its stream, which will deliver some chunks and end
StreamInit ==
    /\ now = 0
    /\ routines = <<>>
    /\ fired = {}
    /\ routineClock = <<>>
    /\ tasks = <<>>
    /\ taskObj = <<>>
    /\ nextId = 0
    /\ messageHistory = <<>>
    /\ frames = <<>>
    /\ tickPc = "idle"
    /\ pendingTasks = <<>>
    /\ invFailed = FALSE
    /\ prompted = {}
    /\ awaitingAgent = {}
    /\ lastPass = NoPass
    /\ outbox = <<>>
    /\ liveIntervals = {}
    /\ replyPc = "idle"
    /\ bystander = OtherUser
    /\ parked = <<>>
    /\ clock = 0
    /\ compaction = NoCompaction
    /\ \E body \in SeqsUpTo(Chunks, MaxChunks) :
          streaming = NewStream(Append(body, LastChunk))

StreamNext ==
    \/ ReadChunk
    \/ TimerFires
    \/ FinalFlush
    \/ UpdateResolves

SpecStream == StreamInit /\ [][StreamNext]_vars

\* ------------------------------------------------- history compaction
MAX_COMPACTIONS_PER_RUN == 5

\* findCompactableRuns: the maximal runs of two or more consecutive
\* assistant messages, each with its first and last index
findCompactableRuns(history) ==
    LET starts == {i \in 1..Len(history) :
                      /\ history[i].role = "assistant"
                      /\ (i = 1 \/ history[i - 1].role # "assistant")}
        EndOf(i) == CHOOSE j \in i..Len(history) :
                      /\ \A k \in i..j : history[k].role = "assistant"
                      /\ (j = Len(history) \/ history[j + 1].role # "assistant")
    IN {r \in {[startIndex |-> i, endIndex |-> EndOf(i)] : i \in starts} :
           r.endIndex - r.startIndex >= 1}

\* the message that takes the place of a run
compactedMessage(run) ==
    [role |-> "assistant",
     content |-> <<Tok("summary", run.endIndex - run.startIndex + 1)>>]

\* variant: the summary is pushed at the end of the history
Splice_SummaryLast(history, start, deleteCount, item) ==
    LET from == IF start > Len(history) + 1 THEN Len(history) + 1 ELSE start
        count == IF deleteCount > Len(history) - from + 1 THEN Len(history) - from + 1
                 ELSE deleteCount
    IN SubSeq(history, 1, from - 1) \o SubSeq(history, from + count, Len(history)) \o <<item>>

\* history.splice(start, deleteCount, item), positions counted from 1
Splice(history, start, deleteCount, item) ==
    LET from == IF start > Len(history) + 1 THEN Len(history) + 1 ELSE start
        count == IF deleteCount > Len(history) - from + 1 THEN Len(history) - from + 1
                 ELSE deleteCount
    IN SubSeq(history, 1, from - 1) \o <<item>> \o SubSeq(history, from + count, Len(history))

\* runHistoryCompaction comes to the user and finds runs to compact
CompactionStart ==
    /\ compaction.pc = "idle"
    /\ findCompactableRuns(messageHistory) # {}
    /\ compaction' = [pc |-> "run", runs |-> findCompactableRuns(messageHistory),
                      totalCompactions |-> 0]
    /\ UNCHANGED <<storeVars, tickVars, messageHistory, frames, invFailed, awaitingAgent,
                   lastPass, chatVars, bystander, parked, clock, streaming>>

\* one iteration of the loop over the runs, last run first: the summary
\* comes back and is spliced in at the run's indices, or the request fails
\* and the run is left as it is
CompactRun(ok) ==
    /\ compaction.pc = "run"
    /\ LET run == CHOOSE r \in compaction.runs :
                      \A q \in compaction.runs : q.startIndex <= r.startIndex
           rest == compaction.runs \ {run}
           total == compaction.totalCompactions + (IF ok THEN 1 ELSE 0)
       IN /\ messageHistory' =
                 IF ok THEN Splice(messageHistory, run.startIndex,
                                   run.endIndex - run.startIndex + 1, compactedMessage(run))
                 ELSE messageHistory
          /\ compaction' =
                 IF rest = {} \/ total >= MAX_COMPACTIONS_PER_RUN THEN NoCompaction
                 ELSE [pc |-> "run", runs |-> rest, totalCompactions |-> total]
    /\ UNCHANGED <<storeVars, tickVars, frames, invFailed, awaitingAgent,
                   lastPass, chatVars, bystander, parked, clock, streaming>>

\* how many entries the history has when a run starts: a few, or as many as
\* the cap allows
HistoryLengths == {3, HistoryCap}

\* the latest entries of the history, in any mix of roles
RecentEntries == 3

\* a history of n entries: old user messages, then the latest entries
HistoryOf(n, roles) ==
    [i \in 1..n |->
        IF i <= n - RecentEntries
        THEN [role |-> "user", content |-> <<Tok("old", i)>>]
        ELSE [role |-> roles[i - (n - RecentEntries)], content |-> <<Tok("m", i)>>]]

\* a pass for a user message has just been entered; the user has a history
HistoryInit ==
    /\ now = 0
    /\ routines = <<>>
    /\ fired = {}
    /\ routineClock = <<>>
    /\ tasks = <<>>
    /\ taskObj = <<>>
    /\ nextId = 0
    /\ \E n \in HistoryLengths, roles \in [1..RecentEntries -> {"user", "assistant"}] :
          messageHistory = HistoryOf(n, roles)
    /\ \E u \in BOOLEAN : frames = <<NewFrame(0, FALSE, u, TRUE, <<>>)>>
    /\ tickPc = "idle"
    /\ pendingTasks = <<>>
    /\ invFailed = FALSE
    /\ prompted = {}
    /\ awaitingAgent = {}
    /\ lastPass = NoPass
    /\ outbox = <<>>
    /\ liveIntervals = {}
    /\ replyPc = "idle"
    /\ SideInit

\* the pass and the compaction job, each going on while the other awaits
HistoryNext ==
    \/ StreamDone(<<>>, "final")
    \/ StreamFail("timeout", FALSE)
    \/ Finalize
    \/ CompactionStart
    \/ \E ok \in BOOLEAN : CompactRun(ok)

SpecHistory == HistoryInit /\ [][HistoryNext]_vars

\* ------------------------------------------------------------------ claims
\* the tool-result messages a pass has recorded so far
ToolResults(f) ==
    IF f.newAppendedMessages = <<>> THEN <<>>
    ELSE SubSeq(f.newAppendedMessages, Len(f.appendMessagesAfterUser) + 2,
                Len(f.newAppendedMessages))

\* C1: whatever the completion service emits, an invocation entered at depth 0
\* never nests more than 6 passes and eventually returns, and the pass at
\* which the recursion stopped returned without executing a tool.
C1_Terminates ==
    /\ [](Len(frames) <= MaxRecursionDepth + 1)
    /\ [](frames # <<>> =>
            <>(frames = <<>> /\ lastPass.depth >= 0 /\ lastPass.tools = 0))

\* the service emitted calls in every pass down to depth 5, and the invocation returned
C1_Witness ==
    /\ frames = <<>>
    /\ lastPass = [depth |-> MaxRecursionDepth, tools |-> 0]

\* C2: no pass is deeper than 5; a pass at depth 5 has tool calling switched
\* off and executes nothing even when its stream carried tool calls; tools
\* run in at most 5 passes of an invocation.
C2_DepthCap ==
    /\ \A i \in 1..Len(frames) :
          LET f == frames[i]
          IN /\ f.currentRecursionDepth <= MaxRecursionDepth
             /\ f.currentRecursionDepth >= MaxRecursionDepth =>
                   /\ ~f.enableToolCalls
                   /\ f.executed = <<>>
                   /\ f.newAppendedMessages = <<>>
                   /\ f.pc \in {"stream", "finalize"}
    /\ Cardinality({i \in 1..Len(frames) : frames[i].executed # <<>>}) <= MaxRecursionDepth

\* a pass at depth 5 whose stream carried tool calls is about to return
C2_Witness ==
    /\ frames # <<>>
    /\ Top.currentRecursionDepth = MaxRecursionDepth
    /\ Top.toolCalls # <<>>
    /\ Top.pc = "finalize"
    /\ \A i \in 1..(Len(frames) - 1) : frames[i].executed # <<>>

\* C3: in every pass the executed calls are a prefix of the emitted calls, the
\* k-th recorded result belongs to the k-th call, and a pass that has made its
\* recursive call has executed and recorded every one of its calls.
C3_EmissionOrder ==
    \A i \in 1..Len(frames) :
        LET f == frames[i]
            res == ToolResults(f)
        IN /\ Len(f.executed) <= Len(f.toolCalls)
           /\ f.executed = SubSeq(f.toolCalls, 1, Len(f.executed))
           /\ Len(res) = Len(f.executed)
           /\ \A k \in 1..Len(res) : res[k].role = "tool" /\ res[k].tool_call_id = k
           /\ i < Len(frames) =>
                 /\ f.pc = "await"
                 /\ Len(f.executed) = Len(f.toolCalls)
                 /\ Len(res) = Len(f.toolCalls)

\* a pass that emitted two calls, one succeeding and one throwing, has recursed
C3_Witness ==
    /\ Len(frames) >= 2
    /\ Len(frames[1].toolCalls) = 2
    /\ ToolResults(frames[1])[1].ok
    /\ ~ToolResults(frames[1])[2].ok

\* C4: when an invocation that adds both messages to the history returns
\* without a failed pass, the history has grown by the user message followed
\* by one assistant entry holding the outermost pass's text and markers.
C4_HistoryOncePerInvocation ==
    [][(/\ Len(frames) = 1
        /\ frames' = <<>>
        /\ Top.addUserToHistory
        /\ Top.addAssistantToHistory
        /\ ~invFailed')
       => (/\ Len(messageHistory') = 2
           /\ messageHistory'[1].role = "user"
           /\ messageHistory'[2] =
                 [role |-> "assistant", content |-> Top.historyResponseAccumulated])]_vars

\* the callback visits task id, finds it stored and due
Visits(id) ==
    /\ TickPing
    /\ Head(pendingTasks) = id
    /\ IsDue(taskObj[id], now)
    /\ getTask(Store, id)

SchedulerStep == TickStart(0) \/ TickPing \/ TickEnd

\* C5: the callback's visit of a due pending task with requiresAction=false
\* sets it to completed, and no scheduler step ever writes needs_replanning
\* to a task with requiresAction=false.
C5_DirectCompletion ==
    [][\A id \in TaskIds :
          /\ (Visits(id) /\ taskObj[id].status = "pending" /\ ~taskObj[id].requiresAction)
                => taskObj'[id].status = "completed"
          /\ (SchedulerStep /\ ~taskObj[id].requiresAction)
                => taskObj'[id].status \in {taskObj[id].status, "completed"}]_vars

\* the callback has just completed a due task that requires no action
C5_Witness ==
    \E id \in TaskIds :
        /\ id \in prompted
        /\ tickPc = "ping"
        /\ ~taskObj[id].requiresAction
        /\ taskObj[id].status = "completed"
        /\ Len(frames) = 1
        /\ Top.pc = "stream"

\* C6: the callback's visit of a due pending task with requiresAction=true
\* leaves it in needs_replanning at the moment the loop is entered for it, at
\* depth 0 and with tool calling enabled.
C6_ReplanThenInvoke ==
    [][\A id \in TaskIds :
          (Visits(id) /\ taskObj[id].status = "pending" /\ taskObj[id].requiresAction)
             => /\ taskObj'[id].status = "needs_replanning"
                /\ id \in prompted'
                /\ Len(frames') = 1
                /\ frames'[1].pc = "stream"
                /\ frames'[1].currentRecursionDepth = 0
                /\ frames'[1].enableToolCalls]_vars

\* the loop has just been entered for a task that requires action
C6_Witness ==
    \E id \in TaskIds :
        /\ id \in prompted
        /\ tickPc = "ping"
        /\ taskObj[id].requiresAction
        /\ taskObj[id].status = "needs_replanning"
        /\ Len(frames) = 1
        /\ Top.pc = "stream"
        /\ Top.enableToolCalls

\* C7: a task the scheduler moved to needs_replanning stays there, tick after
\* tick, for as long as the agent issues no call on it.
C7_StaysInReplanning ==
    \A id \in awaitingAgent : taskObj[id].status = "needs_replanning"

\* a later tick has run to its end without the agent having acted on the task
C7_Witness ==
    \E id \in awaitingAgent :
        /\ tickPc = "idle"
        /\ id \notin prompted
        /\ frames = <<>>

\* C8: at the end of every tick, each task still waiting in needs_replanning
\* for the agent has been prompted by that tick.
C8_RepromptedEveryTick ==
    [][TickEnd => awaitingAgent \subseteq prompted]_vars

\* C9: a task whose status is completed or failed keeps that status in every step.
C9_TerminalStatuses ==
    [][\A id \in TaskIds :
          taskObj[id].status \in {"completed", "failed"}
             => taskObj'[id].status = taskObj[id].status]_vars

\* C10: executing UpdateTask with an explicit ping_at T on a stored
\* needs_replanning task leaves the task pending with pingAt = T.
C10_ExplicitTimeWins ==
    [][ExecTool =>
          LET call == Top.toolCalls[NextCallIndex(Top)]
          IN (/\ call.name = "UpdateTask"
              /\ call.ping_at >= 0
              /\ getTask(Store, call.task_id)
              /\ taskObj[call.task_id].status = "needs_replanning")
             => /\ taskObj'[call.task_id].status = "pending"
                /\ taskObj'[call.task_id].pingAt = call.ping_at]_vars

\* the agent, prompted about a task that requires action, has rescheduled it
C10_Witness ==
    \E id \in TaskIds :
        /\ tickPc = "ping"
        /\ id \in prompted
        /\ taskObj[id].requiresAction
        /\ frames # <<>>
        /\ Len(frames[1].executed) = 1
        /\ frames[1].executed[1].name = "UpdateTask"
        /\ frames[1].executed[1].task_id = id
        /\ frames[1].executed[1].ping_at = MaxTime
        /\ frames[1].executed[1].status = "none"
        /\ taskObj[id].status = "pending"
        /\ taskObj[id].pingAt = MaxTime

\* the call the for-of loop is about to execute is UpdateTask on a stored task
\* that waits in needs_replanning
UpdatesReplanning(call) ==
    /\ call.name = "UpdateTask"
    /\ getTask(Store, call.task_id)
    /\ taskObj[call.task_id].status = "needs_replanning"

\* C11: every reschedule (UpdateTask with a new ping time on a task in
\* needs_replanning, which makes it pending again) raises that task's
\* postponeCount by exactly 1.
C11_RescheduleCountsPostpone ==
    [][ExecTool =>
          LET call == Top.toolCalls[NextCallIndex(Top)]
          IN (UpdatesReplanning(call) /\ call.ping_at >= 0)
             => taskObj'[call.task_id].postponeCount =
                   taskObj[call.task_id].postponeCount + 1]_vars

\* C12: whenever UpdateTask takes a task from needs_replanning back to
\* pending, the task's pingAt afterwards is strictly later than before,
\* unless the call carried an explicit time earlier than the old pingAt.
C12_PingAtAdvances ==
    [][ExecTool =>
          LET call == Top.toolCalls[NextCallIndex(Top)]
          IN (UpdatesReplanning(call) /\ taskObj'[call.task_id].status = "pending")
             => \/ taskObj'[call.task_id].pingAt > taskObj[call.task_id].pingAt
                \/ (call.ping_at >= 0 /\ call.ping_at < taskObj[call.task_id].pingAt)]_vars

\* the context a pass builds from its call directives and their results
NextContext(f) ==
    f.appendMessagesAfterUser
    \o <<[role |-> "assistant", tool_calls |-> f.toolCalls, tool_call_id |-> 0, ok |-> TRUE]>>
    \o [k \in 1..Len(f.toolCalls) |->
          [role |-> "tool", tool_calls |-> <<>>, tool_call_id |-> k,
           ok |-> f.newAppendedMessages[Len(f.appendMessagesAfterUser) + 1 + k].ok]]

\* C13: no two tasks are ever materialized for the same firing instant of
\* the same routine, whatever the jitter and processing time of the ticks.
C13_OneTaskPerInstant ==
    \A e1 \in fired : \A e2 \in fired :
        (e1[1] = e2[1] /\ e1[2] = e2[2]) => e1 = e2

\* the tasks a step has added for the routine at position i
AddedFor(i) ==
    {id \in DOMAIN taskObj' : id > nextId /\ getTask(Store', id) /\ taskObj'[id].routineId = i}

\* C14: when the start of a tick finds an active routine whose most recent
\* firing instant lies within the last minute before the tick's now, that
\* step adds exactly one task for the routine, with pingAt = now, status
\* pending, the routine's annoyance and requiresAction, and postponeCount 0.
C14_RoutineFiresOneTask ==
    [][(\E missed \in MissedTicks : TickStart(missed)) =>
          \A i \in 1..Len(routines) :
              LET r == routines[i]
                  sinceLast == routineClock'[1] - lastFireTime(r.cron, routineClock'[1])
              IN (r.isActive /\ r.cron \in Crons /\ sinceLast >= 0 /\ sinceLast <= FireWindow)
                 => /\ Cardinality(AddedFor(i)) = 1
                    /\ \A id \in AddedFor(i) :
                          /\ Len(tasks') = Len(tasks) + Cardinality(fired' \ fired)
                          /\ taskObj'[id].routineId = i
                          /\ taskObj'[id].pingAt = now'
                          /\ taskObj'[id].status = "pending"
                          /\ taskObj'[id].annoyance = r.defaultAnnoyance
                          /\ taskObj'[id].requiresAction = r.requiresAction
                          /\ taskObj'[id].postponeCount = 0]_vars

\* a tick has just made a task from a routine of high annoyance that requires action
C14_Witness ==
    /\ tickPc = "ping"
    /\ frames = <<>>
    /\ \E e \in fired :
          /\ e[2] = now * MinuteMs
          /\ pendingTasks # <<>>
          /\ Head(pendingTasks) = e[3]
          /\ taskObj[e[3]].annoyance = "high"
          /\ taskObj[e[3]].requiresAction
          /\ taskObj[e[3]].status = "pending"

\* the call the for-of loop is about to execute, and the result message the
\* step records for it
CurrentCall == Top.toolCalls[NextCallIndex(Top)]
RecordedResult == frames'[Len(frames')].newAppendedMessages[Len(Top.newAppendedMessages) + 1]

StateMutatingTools ==
    {"AddTask", "UpdateTask", "MarkTaskComplete", "MarkTaskFailed", "DeleteTask",
     "add_routine", "update_routine"}

\* the call leaves out an argument its tool declares as required
MissesRequired(call) ==
    \/ call.name = "AddTask" /\ (call.arg_name = "none" \/ call.ping_at = NoDate)
    \/ call.name \in {"UpdateTask", "MarkTaskComplete", "MarkTaskFailed", "DeleteTask"}
          /\ call.task_id = NoId
    \/ call.name = "add_routine" /\ (call.arg_name = "none" \/ call.cron = "none")
    \/ call.name = "update_routine" /\ call.routine_id = NoId

\* C15: executing a call to a state-mutating tool that leaves out a required
\* argument records an error result and leaves the store as it was.
C15_MissingArgumentRejected ==
    [][ExecTool =>
          ((CurrentCall.name \in StateMutatingTools /\ CurrentCall.json
              /\ MissesRequired(CurrentCall))
             => (~RecordedResult.ok /\ Store' = Store))]_vars

\* C16: every stored task has an annoyance and a status of the enumerations,
\* and every stored routine a defaultAnnoyance of its enumeration.
C16_EnumerationsHold ==
    /\ \A i \in 1..Len(tasks) :
          /\ taskObj[tasks[i]].annoyance \in Annoyances
          /\ taskObj[tasks[i]].status \in Statuses
    /\ \A i \in 1..Len(routines) : routines[i].defaultAnnoyance \in Annoyances

\* the call names a task or a routine the user's record does not hold
ReferencesAbsent(call) ==
    \/ call.name \in {"UpdateTask", "MarkTaskComplete", "MarkTaskFailed", "DeleteTask",
                       "GetTaskById"}
          /\ call.task_id # NoId /\ ~getTask(Store, call.task_id)
    \/ call.name \in {"AddTask", "update_routine"}
          /\ call.routine_id # NoId /\ ~getRoutine(Store, call.routine_id)

\* C17: executing a call that names a task id or routine id absent from the
\* user's record records an error result and leaves the store as it was.
C17_AbsentIdRejected ==
    [][ExecTool =>
          ((CurrentCall.name \in ToolNames /\ CurrentCall.json
              /\ ReferencesAbsent(CurrentCall))
             => (~RecordedResult.ok /\ Store' = Store))]_vars

\* the executor cannot but throw on this call: unknown tool, arguments that
\* are not JSON, an annoyance or status outside its enumeration, or a task or
\* routine that is looked up and not found
MustThrow(call) ==
    \/ call.name \notin ToolNames
    \/ ~call.json
    \/ call.name \in {"AddTask", "UpdateTask"} /\ AnnoyanceRejected(call.annoyance)
    \/ call.name \in {"add_routine", "update_routine"}
          /\ AnnoyanceRejected(call.default_annoyance)
    \/ call.name = "UpdateTask" /\ Truthy(call.status) /\ call.status \notin Statuses
    \/ call.name \in {"UpdateTask", "MarkTaskComplete", "MarkTaskFailed", "DeleteTask",
                       "GetTaskById"}
          /\ ~getTask(Store, call.task_id)
    \/ call.name = "update_routine" /\ ~getRoutine(Store, call.routine_id)

\* C18: when the executor throws on a call, the step records an error result
\* tagged with that call and the pass goes on with its remaining calls: the
\* invocation is not marked failed, no pass returns, and a pass leaves its
\* for loop only by recursing after it has executed every call.
C18_ToolErrorIsPerCall ==
    [][/\ (ExecTool /\ MustThrow(CurrentCall))
          => /\ RecordedResult = [role |-> "tool", tool_calls |-> <<>>,
                                   tool_call_id |-> NextCallIndex(Top), ok |-> FALSE]
             /\ Len(frames') = Len(frames)
             /\ frames'[Len(frames')].pc = "exec"
             /\ frames'[Len(frames')].executed = Append(Top.executed, CurrentCall)
             /\ Store' = Store
             /\ invFailed' = invFailed
       /\ (frames # <<>> /\ Top.pc = "exec" /\ ~ExecTool)
          => /\ AllExecuted(Top)
             /\ Len(frames') = Len(frames) + 1
             /\ frames'[Len(frames)].pc = "await"
             /\ frames'[Len(frames')].pc = "stream"]_vars

\* a pass whose first call named an unknown tool and whose second call had
\* unparseable arguments has executed both and recursed
C18_Witness ==
    /\ Len(frames) = 2
    /\ Len(frames[1].toolCalls) = 2
    /\ frames[1].toolCalls[1].name \notin ToolNames
    /\ ~frames[1].toolCalls[2].json
    /\ ~ToolResults(frames[1])[1].ok
    /\ ~ToolResults(frames[1])[2].ok
    /\ frames[2].pc = "stream"

\* C19: a pass that has recursed ran with tool calling enabled on n >= 1
\* calls, and the context of the next pass is the context it started with,
\* then one assistant message carrying all n directives, then n tool
\* results in call order, the k-th tagged with the k-th call.
C19_ContextHandedOn ==
    \A i \in 1..(Len(frames) - 1) :
        /\ frames[i].enableToolCalls
        /\ Len(frames[i].toolCalls) >= 1
        /\ frames[i + 1].appendMessagesAfterUser = NextContext(frames[i])

\* a third pass runs on the context of two earlier passes, the first of two calls
C19_Witness ==
    /\ Len(frames) = 3
    /\ Len(frames[1].toolCalls) = 2
    /\ Len(frames[3].appendMessagesAfterUser) = 3 + 1 + Len(frames[2].toolCalls)

\* C20: once a pass of an invocation has failed on its stream, nothing of
\* that invocation is in the history: neither the user message nor any
\* assistant entry.
C20_FailedInvocationLeavesNoHistory ==
    invFailed => messageHistory = <<>>

\* the message is the catch block's apology
IsApology(m) == \E error \in Errors : m.text = errorMessage(error)

\* C21: once a pass has failed on its stream, the user has been sent exactly
\* one apology, its text is the same whatever the error was, and it is the
\* last thing the invocation has shown: no partial text or other message
\* follows it.
C21_SingleStaticApology ==
    LET apologies == {i \in 1..Len(outbox) : IsApology(outbox[i])}
    IN /\ invFailed => Cardinality(apologies) = 1
       /\ \A i \in apologies :
             /\ \A error \in Errors : outbox[i].text = errorMessage(error)
             /\ i = Len(outbox)

\* C23: everything the user is shown comes from the pass at depth 0, and is
\* a pass's text or the apology, never a tool call's arguments or result.
C23_OnlyOutermostShown ==
    \A i \in 1..Len(outbox) :
        /\ outbox[i].depth = 0
        /\ outbox[i].text[1].k \in {"text", "Oops"}

\* the tasks a step takes out of the user's record
Removed == {tasks[i] : i \in 1..Len(tasks)} \ {tasks'[i] : i \in 1..Len(tasks')}
Kept == {tasks'[i] : i \in 1..Len(tasks')}

\* C28: the cleanup removes only tasks that are completed or failed, the
\* oldest of them first, and only when the user has more than 50 tasks; a
\* pending or needs_replanning task is never removed by it.
C28_PruningSparesOpenTasks ==
    [][ReplyCleanup =>
          /\ \A id \in Removed :
                /\ taskObj[id].status \in {"completed", "failed"}
                /\ \A other \in Kept :
                      taskObj[other].status \in {"completed", "failed"}
                         => createdAt(id) < createdAt(other)
          /\ Removed # {} => Len(tasks) > RetentionCeiling
          /\ Len(tasks) > RetentionCeiling => Len(tasks') = RetentionCeiling]_vars

\* C22: the callback's visit of a due pending task with requiresAction=false
\* enters the loop for the notice with tool calling disabled.
C22_NoticeRunsWithoutTools ==
    [][\A id \in TaskIds :
          (Visits(id) /\ taskObj[id].status = "pending" /\ ~taskObj[id].requiresAction)
             => /\ Len(frames') = 1
                /\ ~frames'[1].enableToolCalls]_vars

\* the default delay in minutes by annoyance
DelayRange(annoyance) ==
    IF annoyance = "high" THEN 1..5
    ELSE IF annoyance = "med" THEN 30..60
    ELSE 120..180

\* C24: when a task in needs_replanning is made pending again by a call that
\* carries no explicit time, its new pingAt is now + d minutes with d in
\* [120, 180] for annoyance low, [30, 60] for med and [1, 5] for high.
C24_DefaultDelayByAnnoyance ==
    [][ExecTool =>
          ((/\ UpdatesReplanning(CurrentCall)
            /\ CurrentCall.ping_at < 0
            /\ taskObj'[CurrentCall.task_id].status = "pending")
             => (taskObj'[CurrentCall.task_id].pingAt - now)
                   \in DelayRange(taskObj'[CurrentCall.task_id].annoyance))]_vars

\* what GetTaskById returns for the id AddTask has just handed out
FetchedAfterAdd == GetTaskByIdExecute(Store', [task_id |-> nextId'])

\* C25: fetching a task with GetTaskById right after AddTask created it
\* returns status pending, postponeCount 0 and every supplied field as it
\* was supplied.
C25_AddThenGet ==
    [][(ExecTool /\ CurrentCall.name = "AddTask" /\ RecordedResult.ok) =>
          /\ FetchedAfterAdd.ok
          /\ FetchedAfterAdd.task.status = "pending"
          /\ FetchedAfterAdd.task.postponeCount = 0
          /\ CurrentCall.arg_name # "none" => FetchedAfterAdd.task.name = CurrentCall.arg_name
          /\ CurrentCall.ping_at # NoDate => FetchedAfterAdd.task.pingAt = CurrentCall.ping_at
          /\ CurrentCall.due_at # NoDate => FetchedAfterAdd.task.dueAt = CurrentCall.due_at
          /\ CurrentCall.routine_id # NoId
                => FetchedAfterAdd.task.routineId = CurrentCall.routine_id
          /\ CurrentCall.annoyance # "none"
                => FetchedAfterAdd.task.annoyance = CurrentCall.annoyance
          /\ CurrentCall.requires_action # "none"
                => FetchedAfterAdd.task.requiresAction = (CurrentCall.requires_action = "true")]_vars

\* C29: every stored routine has a recurrence expression that parses.
C29_RecurrenceParseable ==
    \A i \in 1..Len(routines) : routines[i].cron \in Crons

\* C30: every stored task has a pingAt that is a valid time instant.
C30_PingAtAlwaysValid ==
    \A i \in 1..Len(tasks) : taskObj[tasks[i]].pingAt >= 0

C27_MissedTickSkips ==
    \A e \in fired : e[4] - e[2] <= FireWindow

\* the tick at the odd minute did not run; the tick a minute later has
\* started more than 60 000 ms after the instant and made no task for it
C27_Witness ==
    /\ Len(routines) >= 1
    /\ routines[1].isActive
    /\ routines[1].cron = "oddMinutes"
    /\ now = 2
    /\ tickPc = "ping"
    /\ routineClock # <<>>
    /\ routineClock[2] - MinuteMs > FireWindow
    /\ routineClock[2] < 3 * MinuteMs
    /\ \A e \in fired : e[1] # 1

\* the tasks that were ever created for the routine at position r
TasksOf(r) == {id \in DOMAIN taskObj : taskObj[id].routineId = r}

\* C37: for every routine, stats.completed + stats.failed never exceeds the
\* number of tasks that ever referenced the routine: a task counts at most
\* once, however often MarkTaskComplete and MarkTaskFailed are called on it.
C37_StatsCountEachTaskOnce ==
    \A r \in 1..Len(routines) :
        routines[r].completed + routines[r].failed <= Cardinality(TasksOf(r))

\* C36: whatever userId the agent writes into a call's arguments, the other
\* user's record is never changed: it is in every state what it was when
\* the pass began, and the call acts on the record of the pass's own user.
C36_ToolsStayInOwnRecord ==
    bystander = OtherUser

\* a pass has executed AddTask with the other user's id in its arguments,
\* and the new task is in the own user's record
C36_Witness ==
    /\ frames # <<>>
    /\ \E i \in 1..Len(frames[1].executed) :
          /\ frames[1].executed[i].name = "AddTask"
          /\ frames[1].executed[i].userId = UserB
    /\ Len(tasks) = 2
    /\ taskObj[tasks[2]].name = "n"

\* the stored tasks that are pending with a valid pingAt
PendingWithTime ==
    {id \in DOMAIN taskObj : taskObj[id].status = "pending" /\ taskObj[id].pingAt \in Times}

AtTask(id) == TickPing /\ Head(pendingTasks) = id

\* C34: a task of the tick's list that is no longer pending when the
\* callback comes to it (the agent completed, failed or deleted it during an
\* earlier task's pass of the same tick) is neither written nor prompted.
C34_OnlyPendingIsTransitioned ==
    [][\A id \in DOMAIN taskObj :
          (AtTask(id) /\ (taskObj[id].status # "pending" \/ ~getTask(Store, id)))
             => (taskObj' = taskObj /\ frames' = <<>> /\ prompted' = prompted)]_vars

\* the tasks the running (or latest) tick made from routines
FiredByThisTick ==
    {e[3] : e \in {x \in fired : routineClock # <<>> /\ x[4] = routineClock[1]}}

\* C39 as stated: when a tick ends, every task it made from a routine is
\* completed (requiresAction=false) or in needs_replanning
\* (requiresAction=true), not pending.
C39_FiredTaskSettledInTick ==
    [][TickEnd =>
          \A id \in FiredByThisTick :
              taskObj[id].status = PingStatus(taskObj[id])]_vars

\* C39, amended: a task a tick makes from a routine has pingAt equal to that
\* tick's now and stands, pending, in the same tick's list of tasks to
\* visit; when the callback comes to it and finds it still pending and due,
\* it sets it to completed (requiresAction=false) or needs_replanning
\* (requiresAction=true) and starts a pass for it.  What its status is when
\* the tick ends is up to the agent's calls in the passes of that tick.
C39_FiredTaskIsDueAtOnce ==
    [][/\ TickStart(0) =>
            \A e \in fired' \ fired :
                /\ taskObj'[e[3]].pingAt = now'
                /\ taskObj'[e[3]].status = "pending"
                /\ \E i \in 1..Len(pendingTasks') : pendingTasks'[i] = e[3]
       /\ \A id \in FiredByThisTick :
            (Visits(id) /\ taskObj[id].status = "pending")
               => /\ taskObj'[id].status = PingStatus(taskObj[id])
                  /\ id \in prompted'
                  /\ Len(frames') = 1]_vars

\* the tick that made a task from the routine has visited it and started
\* the pass for it, after the passes for the two older tasks
C39_Witness ==
    /\ tickPc = "ping"
    /\ Len(frames) = 1
    /\ Top.pc = "stream"
    /\ \E id \in FiredByThisTick :
          /\ id \in prompted
          /\ taskObj[id].pingAt = now
          /\ taskObj[id].status = PingStatus(taskObj[id])
          /\ pendingTasks = <<>>

\* a pass the scheduler started is in flight, running or suspended
PingPassInFlight ==
    \/ tickPc = "ping" /\ frames # <<>>
    \/ \E i \in 1..Len(parked) : parked[i].tickPc = "ping" /\ parked[i].frames # <<>>

\* a pass replyToUser started is in flight, running or suspended
ReplyPassInFlight ==
    \/ replyPc = "stream" /\ frames # <<>>
    \/ \E i \in 1..Len(parked) : parked[i].replyPc = "stream" /\ parked[i].frames # <<>>

\* C32: a pass started by the scheduler for a task and a pass started for an
\* incoming message of the same user are never in flight at the same time.
C32_OnePassPerUser ==
    ~(PingPassInFlight /\ ReplyPassInFlight)

\* C35: a tick never finds due, and so transitions and prompts, a task that
\* another tick, still running, has already transitioned and prompted (the
\* agent answers in plain text: no pingAt changes in between).
C35_OncePerPingAt ==
    [][\A id \in DOMAIN taskObj :
          Visits(id) => \A i \in 1..Len(parked) : id \notin parked[i].prompted]_vars

\* the tool-call deltas of the chunks read so far, in the order of arrival
RECURSIVE AllDeltas(_)
AllDeltas(chunks) ==
    IF chunks = <<>> THEN <<>>
    ELSE Head(chunks).tool_calls \o AllDeltas(Tail(chunks))

\* the fragments of one field that arrived for index i, joined in the order
\* of arrival
RECURSIVE Joined(_, _, _)
Joined(deltas, i, field) ==
    IF deltas = <<>> THEN <<>>
    ELSE (IF Head(deltas).index = i THEN Head(deltas)[field] ELSE <<>>)
         \o Joined(Tail(deltas), i, field)

\* the indices for which a delta has arrived
Arrived(deltas) == {deltas[k].index : k \in 1..Len(deltas)} \ {NoIndex}

\* C31: at every moment of the stream loop, the call assembled for an index
\* has as its name and as its argument string the fragments received for
\* that index, joined in arrival order; an index nothing arrived for has
\* no call.
C31_FragmentsConcatenated ==
    streaming.pc # "none" =>
        LET deltas == AllDeltas(streaming.read)
            toolCalls == streaming.toolCalls
        IN /\ \A i \in Arrived(deltas) :
                /\ i + 1 <= Len(toolCalls)
                /\ ~toolCalls[i + 1].hole
                /\ toolCalls[i + 1].name = Joined(deltas, i, "name")
                /\ toolCalls[i + 1].arguments = Joined(deltas, i, "arguments")
           /\ \A k \in 1..Len(toolCalls) :
                (k - 1) \notin Arrived(deltas) => toolCalls[k].hole

\* the stream has ended after the name and the arguments of call 0 came in
\* two pieces each, the second piece of the arguments in one chunk with the
\* pieces of call 1
C31_Witness ==
    /\ streaming.pc = "done"
    /\ Len(streaming.toolCalls) = 2
    /\ streaming.toolCalls[1].name = <<"Add", "Task">>
    /\ streaming.toolCalls[1].arguments = <<"{a", "}">>
    /\ streaming.toolCalls[2].name = <<"Del">>

\* C40: within one pass at most one message is created; every other flush
\* edits it.
C40_OneMessagePerPass ==
    streaming.pc # "none" => streaming.created <= 1

AppendsEntries(h, h2, n) ==
    LET dropped == Len(h) + n - Len(h2)
    IN /\ Len(h2) >= n
       /\ dropped >= 0
       /\ dropped > 0 => Len(h2) = HistoryCap
       /\ SubSeq(h2, 1, Len(h2) - n) = SubSeq(h, dropped + 1, Len(h))

\* the step puts one summary in the place of one or more consecutive entries
ReplacesRange(h, h2) ==
    LET removed == Len(h) - Len(h2) + 1
    IN /\ removed >= 1
       /\ \E a \in 0..(Len(h2) - 1) :
             /\ h2[a + 1].role = "assistant"
             /\ h2[a + 1].content[1].k = "summary"
             /\ SubSeq(h2, 1, a) = SubSeq(h, 1, a)
             /\ SubSeq(h2, a + 2, Len(h2)) = SubSeq(h, a + removed + 1, Len(h))

====
